---------------------------- MODULE Spec2Model ----------------------------
(***************************************************************************)
(* A model of UrlShortenerService (src/src/main.rs): the two event stores  *)
(* url_events and redirect_events_by_slug, the two commands                *)
(* handle_create_short_link and handle_redirect, and the query get_stats.  *)
(*                                                                         *)
(* A Slug is a sequence of one-character strings, so that the slug a       *)
(* handler derives from a URL (format!("{:x}", hash) cut to SLUG_LEN       *)
(* characters) is computed, and can be compared with a slug a caller       *)
(* supplies.  A Url is an opaque string: the two library functions applied *)
(* to it, url::Url::parse and DefaultHasher, are tabulated for the URLs    *)
(* the model draws.                                                        *)
(***************************************************************************)
EXTENDS Integers, Sequences, FiniteSets, TLC

VARIABLES
    url_events,               \* Vec<ShortLink>: the LinkCreated events
    redirect_events_by_slug,  \* HashMap<String, Vec<Slug>>: the RedirectOccurred events
    pc,                       \* "idle", or "loop": inside the slug-generation loop
    call,                     \* the call being served, or the last one served
    ret,                      \* what that call returned
    event_log,                \* history: every event, in the order it was appended
    returned                  \* history: the ShortLinks returned by successful creates

vars == <<url_events, redirect_events_by_slug, pc, call, ret, event_log, returned>>

----------------------------------------------------------------------------
(* Bounds *)

\* handle_redirect records at most this many events in all.
MaxRedirects == 2

----------------------------------------------------------------------------
(* Inputs *)

\* const SLUG_LEN: usize = 10;
SLUG_LEN == 10

Url8      == "http://example.com/8"
UrlA      == "http://example.com/294562"
UrlB      == "http://example.com/620132"
UrlNotUrl == "not a url"

\* The URLs a caller passes: absolute http URLs, and a string that is no URL.
WellFormedUrls == {Url8, UrlA, UrlB}
MalformedUrls == {UrlNotUrl}
Urls == WellFormedUrls \cup MalformedUrls

\* "random_slug", the slug main passes
random_slug == <<"r","a","n","d","o","m","_","s","l","u","g">>
\* "aecced958b"
hex_slug == <<"a","e","c","c","e","d","9","5","8","b">>
\* "8296976f26"
hex_slug8 == <<"8","2","9","6","9","7","6","f","2","6">>

\* The slugs a caller passes.
Slugs == {random_slug, hex_slug, hex_slug8}

\* Option<Slug>
None == [some |-> FALSE]
Some(slug) == [some |-> TRUE, val |-> slug]
SlugArgs == {None} \cup {Some(s) : s \in Slugs}

----------------------------------------------------------------------------
(* Library functions *)

\* baseUrl::parse(&url.0).is_err(): "not a url" has no scheme and there is no
\* base URL to resolve it against (ParseError::RelativeUrlWithoutBase); the
\* other URLs are absolute http URLs.
UrlParseIsErr_Never(url) == FALSE

UrlParseIsErr(url) == url \in MalformedUrls

\* DefaultHasher::new(), url.hash(&mut hasher), hasher.finish(): SipHash-1-3
\* with a zero key over the bytes of url followed by 0xff.  The u64 is written
\* as its 16 hexadecimal digits, most significant first:
\*   http://example.com/8        08296976f264d3d2
\*   http://example.com/294562   aecced958b965963
\*   http://example.com/620132   aecced958b46ca7a
\*   not a url                   5d212da0a59e72c7
\* The two example.com/29.. and /62.. URLs agree on their first ten digits, and
\* the hash of example.com/8 has a leading zero that {:x} does not print.
DefaultHasher(url) ==
    CASE url = Url8      -> <<0,8,2,9,6,9,7,6,15,2,6,4,13,3,13,2>>
      [] url = UrlA      -> <<10,14,12,12,14,13,9,5,8,11,9,6,5,9,6,3>>
      [] url = UrlB      -> <<10,14,12,12,14,13,9,5,8,11,4,6,12,10,7,10>>
      [] url = UrlNotUrl -> <<5,13,2,1,2,13,10,0,10,5,9,14,7,2,12,7>>

HexDigits == <<"0","1","2","3","4","5","6","7","8","9","a","b","c","d","e","f">>

\* format!("{:x}", hash): lower-case hexadecimal with no leading zeros (and
\* "0" for zero).
RECURSIVE StripLeadingZeros(_)
StripLeadingZeros(digits) ==
    IF Len(digits) > 1 /\ Head(digits) = 0
    THEN StripLeadingZeros(Tail(digits))
    ELSE digits

LowerHex(hash) ==
    LET digits == StripLeadingZeros(hash)
    IN  [i \in 1..Len(digits) |-> HexDigits[digits[i] + 1]]

\* .chars().take(n).collect()
Take(chars, n) == SubSeq(chars, 1, IF Len(chars) < n THEN Len(chars) ELSE n)

\* fn generate_slug_from_url(url: &str) -> String
generate_slug_from_url(url) == Take(LowerHex(DefaultHasher(url)), SLUG_LEN)

\* The slugs passed to handle_redirect and get_stats: the ones callers choose
\* and the ones the service generates.
AllSlugs == Slugs \cup {generate_slug_from_url(u) : u \in Urls}

----------------------------------------------------------------------------
(* Values *)

ShortLink(slug, url) == [slug |-> slug, url |-> url]
Stats(link, redirects) == [link |-> link, redirects |-> redirects]

Ok(v)    == [tag |-> "Ok", val |-> v]
Err(e)   == [tag |-> "Err", err |-> e]
Pending  == [tag |-> "Pending"]

LinkCreated(link) == [kind |-> "LinkCreated", slug |-> link.slug, url |-> link.url]
RedirectOccurred(slug) == [kind |-> "RedirectOccurred", slug |-> slug]

----------------------------------------------------------------------------
(* UrlShortenerService *)

\* UrlShortenerService::new()
Init ==
    /\ url_events = <<>>
    /\ redirect_events_by_slug = [key \in {} |-> <<>>]
    /\ pc = "idle"
    /\ call = [op |-> "new"]
    /\ ret = Pending
    /\ event_log = <<>>
    /\ returned = <<>>

UrlExists_Never(url) == FALSE

\* self.url_events.iter().any(|event| event.url == url)
UrlExists(url) == \E i \in DOMAIN url_events : url_events[i].url = url

existing_slugs_SkipFirst ==
    {url_events[i].slug : i \in DOMAIN url_events \ {1}}

\* let existing_slugs: HashSet<_> =
\*     self.url_events.iter().map(|event| &event.slug.0).collect();
existing_slugs == {url_events[i].slug : i \in DOMAIN url_events}

SlugInUse_Never(slug) == FALSE

SlugInUse_Inverted(slug) == slug \notin existing_slugs

\* existing_slugs.contains(..)
SlugInUse(slug) == slug \in existing_slugs

PushLink_Twice(short_link) ==
    /\ url_events' = Append(Append(url_events, short_link), short_link)
    /\ event_log' = Append(event_log, LinkCreated(short_link))
    /\ returned' = Append(returned, short_link)
    /\ ret' = Ok(short_link)
    /\ pc' = "idle"
    /\ UNCHANGED redirect_events_by_slug

PushLink_Replace(short_link) ==
    /\ url_events' = <<short_link>>
    /\ event_log' = Append(event_log, LinkCreated(short_link))
    /\ returned' = Append(returned, short_link)
    /\ ret' = Ok(short_link)
    /\ pc' = "idle"
    /\ UNCHANGED redirect_events_by_slug

PushLink_Prepend(short_link) ==
    /\ url_events' = <<short_link>> \o url_events
    /\ event_log' = Append(event_log, LinkCreated(short_link))
    /\ returned' = Append(returned, short_link)
    /\ ret' = Ok(short_link)
    /\ pc' = "idle"
    /\ UNCHANGED redirect_events_by_slug

\* self.url_events.push(short_link.clone()); return Ok(short_link);
PushLink(short_link) ==
    /\ url_events' = Append(url_events, short_link)
    /\ event_log' = Append(event_log, LinkCreated(short_link))
    /\ returned' = Append(returned, short_link)
    /\ ret' = Ok(short_link)
    /\ pc' = "idle"
    /\ UNCHANGED redirect_events_by_slug

\* return Err(e), with nothing recorded
Fail(e) ==
    /\ ret' = Err(e)
    /\ pc' = "idle"
    /\ UNCHANGED <<url_events, redirect_events_by_slug, event_log, returned>>

\* handle_create_short_link up to its return or, when no slug is given, up to
\* the head of the slug-generation loop.
handle_create_short_link(url, slug) ==
    /\ pc = "idle"
    /\ call' = [op |-> "handle_create_short_link", url |-> url, slug |-> slug]
    /\ IF UrlParseIsErr(url)
       THEN Fail("InvalidUrl")
       ELSE IF UrlExists(url)
       THEN Fail("SlugAlreadyInUse")
       ELSE IF slug.some
       THEN IF SlugInUse(slug.val)
            THEN Fail("SlugAlreadyInUse")
            ELSE PushLink(ShortLink(slug.val, url))
       ELSE /\ pc' = "loop"
            /\ ret' = Pending
            /\ UNCHANGED <<url_events, redirect_events_by_slug, event_log, returned>>

\* One iteration of
\*   loop { let slug_str = generate_slug_from_url(&url.0);
\*          if !existing_slugs.contains(&slug_str) { break ShortLink {..}; } }
\* and, when it breaks, the rest of handle_create_short_link.  An iteration
\* that does not break changes nothing.
slug_loop ==
    /\ pc = "loop"
    /\ LET slug_str == generate_slug_from_url(call.url)
       IN  IF ~SlugInUse(slug_str)
           THEN PushLink(ShortLink(slug_str, call.url)) /\ UNCHANGED call
           ELSE UNCHANGED vars


FindUrlEvent_Any(slug) == IF url_events = <<>> THEN 0 ELSE 1

\* self.url_events.iter().find(|url_event| url_event.slug == slug): the index
\* of the first LinkCreated event with this slug, 0 when there is none.
FindUrlEvent(slug) ==
    LET hits == {i \in DOMAIN url_events : url_events[i].slug = slug}
    IN  IF hits = {} THEN 0 ELSE CHOOSE i \in hits : \A j \in hits : i <= j

RecordRedirect_Overwrite(map, slug) ==
    [key \in DOMAIN map \cup {slug} |->
        IF key = slug THEN <<slug>> ELSE map[key]]

\* if let Some(stat) = self.redirect_events_by_slug.get_mut(&slug.0) {
\*     stat.push(slug.clone());
\* } else {
\*     self.redirect_events_by_slug.insert(slug.0.clone(), vec![slug.clone()]);
\* }
RecordRedirect(map, slug) ==
    IF slug \in DOMAIN map
    THEN [map EXCEPT ![slug] = Append(@, slug)]
    ELSE [key \in DOMAIN map \cup {slug} |->
             IF key = slug THEN <<slug>> ELSE map[key]]

\* The number of RedirectOccurred events recorded, over all slugs.
RECURSIVE TotalRedirects(_, _)
TotalRedirects(map, keys) ==
    IF keys = {} THEN 0
    ELSE LET key == CHOOSE k \in keys : TRUE
         IN  Len(map[key]) + TotalRedirects(map, keys \ {key})

handle_redirect_RecordFirst(slug) ==
    /\ pc = "idle"
    /\ call' = [op |-> "handle_redirect", slug |-> slug]
    /\ TotalRedirects(redirect_events_by_slug,
                      DOMAIN redirect_events_by_slug) < MaxRedirects
    /\ redirect_events_by_slug' = RecordRedirect(redirect_events_by_slug, slug)
    /\ event_log' = Append(event_log, RedirectOccurred(slug))
    /\ LET found == FindUrlEvent(slug)
       IN  ret' = IF found # 0
                  THEN Ok(ShortLink(slug, url_events[found].url))
                  ELSE Err("SlugNotFound")
    /\ UNCHANGED <<url_events, pc, returned>>

\* fn handle_redirect(&mut self, slug: Slug) -> Result<ShortLink, ShortenerError>
handle_redirect(slug) ==
    /\ pc = "idle"
    /\ call' = [op |-> "handle_redirect", slug |-> slug]
    /\ LET found == FindUrlEvent(slug)
       IN  IF found # 0
           THEN /\ TotalRedirects(redirect_events_by_slug,
                                  DOMAIN redirect_events_by_slug) < MaxRedirects
                /\ redirect_events_by_slug' =
                       RecordRedirect(redirect_events_by_slug, slug)
                /\ event_log' = Append(event_log, RedirectOccurred(slug))
                /\ ret' = Ok(ShortLink(slug, url_events[found].url))
                /\ UNCHANGED <<url_events, pc, returned>>
           ELSE Fail("SlugNotFound")

CountRedirects_KeyOnly(slug) ==
    IF slug \in DOMAIN redirect_events_by_slug THEN 1 ELSE 0

\* self.redirect_events_by_slug.get(&slug.0)
\*     .map_or(0, |stat| stat.iter().filter(|&x| x.0 == slug.0).count()) as u64
CountRedirects(slug) ==
    IF slug \in DOMAIN redirect_events_by_slug
    THEN LET stat == redirect_events_by_slug[slug]
         IN  Cardinality({i \in DOMAIN stat : stat[i] = slug})
    ELSE 0

get_stats_RecordsRedirect(slug) ==
    /\ pc = "idle"
    /\ call' = [op |-> "get_stats", slug |-> slug]
    /\ TotalRedirects(redirect_events_by_slug,
                      DOMAIN redirect_events_by_slug) < MaxRedirects
    /\ redirect_events_by_slug' = RecordRedirect(redirect_events_by_slug, slug)
    /\ LET found == FindUrlEvent(slug)
       IN  ret' = IF found # 0
                  THEN Ok(Stats(url_events[found], CountRedirects(slug)))
                  ELSE Err("SlugNotFound")
    /\ UNCHANGED <<url_events, pc, event_log, returned>>

\* fn get_stats(&self, slug: Slug) -> Result<Stats, ShortenerError>
get_stats(slug) ==
    /\ pc = "idle"
    /\ call' = [op |-> "get_stats", slug |-> slug]
    /\ LET found == FindUrlEvent(slug)
       IN  IF found # 0
           THEN /\ ret' = Ok(Stats(url_events[found], CountRedirects(slug)))
                /\ UNCHANGED <<url_events, redirect_events_by_slug, pc,
                               event_log, returned>>
           ELSE Fail("SlugNotFound")

Next ==
    \/ \E url \in Urls, slug \in SlugArgs : handle_create_short_link(url, slug)
    \/ slug_loop
    \/ \E slug \in AllSlugs : handle_redirect(slug)
    \/ \E slug \in AllSlugs : get_stats(slug)

Spec == Init /\ [][Next]_vars

----------------------------------------------------------------------------
(* What the properties speak of *)

\* slug has a LinkCreated event
Created(slug) == \E i \in DOMAIN url_events : url_events[i].slug = slug

\* url has a LinkCreated event
Registered(url) == \E i \in DOMAIN url_events : url_events[i].url = url

\* No event is appended and no redirect is recorded.
NothingRecorded ==
    /\ url_events' = url_events
    /\ redirect_events_by_slug' = redirect_events_by_slug
    /\ event_log' = event_log

\* Exactly LinkCreated{slug, url} is appended.
LinkAppended(slug, url) ==
    /\ url_events' = Append(url_events, ShortLink(slug, url))
    /\ redirect_events_by_slug' = redirect_events_by_slug
    /\ event_log' = Append(event_log, LinkCreated(ShortLink(slug, url)))

\* The last call was handle_create_short_link
CalledCreate == call.op = "handle_create_short_link"

\* The last call was handle_redirect
CalledRedirect == call.op = "handle_redirect"

\* The slugs returned by the successful creates before the last one
ReturnedEarlier ==
    {returned[i].slug : i \in 1..(Len(returned) - 1)}

\* The positions of an event in the history
Positions(event) == {i \in DOMAIN event_log : event_log[i] = event}

----------------------------------------------------------------------------
(* C1 *)

\* C1: in every reachable state no two LinkCreated events (entries of
\* url_events) carry the same slug, whether the slug was supplied by the
\* caller or generated from the URL.
C1_NoTwoLinkCreatedShareSlug ==
    \A i, j \in DOMAIN url_events :
        url_events[i].slug = url_events[j].slug => i = j

\* Three links are registered, one under a generated slug and one under a
\* slug its caller chose.
C1_Witness ==
    /\ Len(url_events) = 3
    /\ \E i \in DOMAIN url_events :
           url_events[i].slug = generate_slug_from_url(url_events[i].url)
    /\ \E i \in DOMAIN url_events :
           /\ url_events[i].slug = random_slug
           /\ url_events[i].slug # generate_slug_from_url(url_events[i].url)

----------------------------------------------------------------------------
(* C2 *)

\* C2: handle_create_short_link(url, Some(slug)) with a well-formed url and a
\* slug that already has a LinkCreated event returns Err(SlugAlreadyInUse),
\* whether url is registered or not, and appends no event.
C2_UsedSlugIsRejected ==
    [][\A url \in WellFormedUrls, slug \in Slugs :
          (Created(slug) /\ handle_create_short_link(url, Some(slug)))
              => (ret' = Err("SlugAlreadyInUse") /\ NothingRecorded)]_vars

\* A create of an unregistered URL under a slug in use was rejected.
C2_Witness ==
    /\ CalledCreate
    /\ call.slug.some
    /\ call.url \in WellFormedUrls
    /\ ~Registered(call.url)
    /\ Created(call.slug.val)
    /\ ret = Err("SlugAlreadyInUse")

----------------------------------------------------------------------------
(* C3 *)

\* C3, as claimed: for every well-formed url and every slug with no prior
\* LinkCreated event, handle_create_short_link(url, Some(slug)) succeeds,
\* appends LinkCreated{slug, url} and returns ShortLink{slug, url}.
C3_FreshSlugAlwaysSucceeds ==
    [][\A url \in WellFormedUrls, slug \in Slugs :
          (~Created(slug) /\ handle_create_short_link(url, Some(slug)))
              => (ret' = Ok(ShortLink(slug, url)) /\ LinkAppended(slug, url))]_vars

\* C3, amended: for every well-formed url that has no LinkCreated event and
\* every slug that has no LinkCreated event,
\* handle_create_short_link(url, Some(slug)) succeeds, appends
\* LinkCreated{slug, url} and returns ShortLink{slug, url}.
C3_FreshSlugFreshUrlSucceeds ==
    [][\A url \in WellFormedUrls, slug \in Slugs :
          (/\ ~Created(slug)
           /\ ~Registered(url)
           /\ handle_create_short_link(url, Some(slug)))
              => (ret' = Ok(ShortLink(slug, url)) /\ LinkAppended(slug, url))]_vars

\* A create with a caller-supplied slug succeeded after other links had been
\* registered, and its link is the last event.
C3_Witness ==
    /\ CalledCreate
    /\ call.slug.some
    /\ ret = Ok(ShortLink(call.slug.val, call.url))
    /\ Len(url_events) >= 2
    /\ url_events[Len(url_events)] = ShortLink(call.slug.val, call.url)

----------------------------------------------------------------------------
(* C4, C5 *)

\* C4: for every well-formed url, handle_create_short_link(url, None)
\* succeeds in any reachable state, and the slug it returns is not equal to
\* any slug returned by an earlier successful create.  A call that has
\* reached the slug-generation loop succeeds when the loop's next iteration
\* leaves the loop.
C4_GeneratedCreateSucceeds ==
    (CalledCreate /\ ~call.slug.some /\ call.url \in WellFormedUrls)
        => IF pc = "loop"
           THEN ENABLED <<slug_loop>>_vars
           ELSE /\ ret.tag = "Ok"
                /\ ret.val.slug \notin ReturnedEarlier

\* C5: every call handle_create_short_link(url, None) terminates: the
\* slug-generation loop finds a slug not in use.  An iteration computes the
\* same slug as the one before it, so the loop ends if and only if an
\* iteration at its head leaves it.
C5_SlugLoopTerminates ==
    pc = "loop" => ENABLED <<slug_loop>>_vars

----------------------------------------------------------------------------
(* C6 *)

\* C6: handle_create_short_link with a url that is not well-formed returns
\* Err(InvalidUrl) and appends no event, for every slug argument (None, a
\* fresh slug, a slug in use).
C6_InvalidUrlIsRejected ==
    [][\A url \in MalformedUrls, slug \in SlugArgs :
          handle_create_short_link(url, slug)
              => (ret' = Err("InvalidUrl") /\ NothingRecorded /\ pc' = "idle")]_vars

\* A create of a malformed URL under a slug in use was rejected with
\* InvalidUrl.
C6_Witness ==
    /\ CalledCreate
    /\ call.url \in MalformedUrls
    /\ call.slug.some
    /\ Created(call.slug.val)
    /\ ret = Err("InvalidUrl")

----------------------------------------------------------------------------
(* C7 *)

\* C7: handle_create_short_link(url, slug) for a url that already has a
\* LinkCreated event returns Err(SlugAlreadyInUse) whatever the slug argument
\* is (None, or a slug that is itself fresh), and appends no event.
C7_RegisteredUrlIsRejected ==
    [][\A url \in Urls, slug \in SlugArgs :
          (Registered(url) /\ handle_create_short_link(url, slug))
              => (/\ ret' = Err("SlugAlreadyInUse")
                  /\ NothingRecorded
                  /\ pc' = "idle")]_vars

\* A create of a registered URL under a fresh slug was rejected.
C7_Witness ==
    /\ CalledCreate
    /\ Registered(call.url)
    /\ call.slug.some
    /\ ~Created(call.slug.val)
    /\ ret = Err("SlugAlreadyInUse")

----------------------------------------------------------------------------
(* C8 *)

\* C8: handle_redirect(slug) for a slug with no LinkCreated event returns
\* Err(SlugNotFound) and leaves the whole state unchanged: no RedirectOccurred
\* event is recorded under that slug and the redirect events of every other
\* slug are as they were.
C8_UnknownSlugRedirectChangesNothing ==
    [][\A slug \in AllSlugs :
          (~Created(slug) /\ handle_redirect(slug))
              => (/\ ret' = Err("SlugNotFound")
                  /\ NothingRecorded
                  /\ returned' = returned
                  /\ pc' = pc)]_vars

\* A redirect of an unknown slug was rejected while another slug has
\* redirects recorded.
C8_Witness ==
    /\ CalledRedirect
    /\ ~Created(call.slug)
    /\ ret = Err("SlugNotFound")
    /\ call.slug \notin DOMAIN redirect_events_by_slug
    /\ \E other \in DOMAIN redirect_events_by_slug :
           Len(redirect_events_by_slug[other]) = MaxRedirects

----------------------------------------------------------------------------
(* C9 *)

\* C9: handle_redirect(slug) for a slug that has a LinkCreated event returns
\* Ok with the ShortLink exactly as the create returned it, appends exactly
\* one RedirectOccurred event for that slug, and leaves the LinkCreated
\* events and the redirect events of every other slug unchanged.
C9_RedirectRecordsOneEvent ==
    [][\A slug \in AllSlugs :
          (Created(slug) /\ handle_redirect(slug))
              => (/\ \E i \in DOMAIN returned : returned[i].slug = slug
                  /\ \A i \in DOMAIN returned :
                         returned[i].slug = slug => ret' = Ok(returned[i])
                  /\ url_events' = url_events
                  /\ event_log' = Append(event_log, RedirectOccurred(slug))
                  /\ DOMAIN redirect_events_by_slug' =
                         DOMAIN redirect_events_by_slug \cup {slug}
                  /\ redirect_events_by_slug'[slug] =
                         Append(IF slug \in DOMAIN redirect_events_by_slug
                                THEN redirect_events_by_slug[slug]
                                ELSE <<>>,
                                slug)
                  /\ \A other \in DOMAIN redirect_events_by_slug \ {slug} :
                         redirect_events_by_slug'[other] =
                             redirect_events_by_slug[other])]_vars

\* The second redirect of a slug succeeded and returned the link its create
\* had returned.
C9_Witness ==
    /\ CalledRedirect
    /\ ret.tag = "Ok"
    /\ ret.val \in {returned[i] : i \in DOMAIN returned}
    /\ call.slug \in DOMAIN redirect_events_by_slug
    /\ Len(redirect_events_by_slug[call.slug]) >= 1
    /\ event_log[Len(event_log)] = RedirectOccurred(call.slug)
    /\ \E i \in 1..(Len(event_log) - 1) :
           event_log[i] = RedirectOccurred(call.slug)

----------------------------------------------------------------------------
(* C10 *)

\* C10: in every reachable state, every slug that has a recorded
\* RedirectOccurred event (a key of redirect_events_by_slug, or an element of
\* one of its lists) has a LinkCreated event in url_events, and that event
\* was appended before the first of the slug's redirect events.
C10_RedirectOnlyAfterLinkCreated ==
    \A key \in DOMAIN redirect_events_by_slug :
        \A slug \in {key} \cup {redirect_events_by_slug[key][i] :
                                   i \in DOMAIN redirect_events_by_slug[key]} :
            \E j \in DOMAIN url_events :
                /\ url_events[j].slug = slug
                /\ Positions(RedirectOccurred(slug)) # {}
                /\ \E c \in Positions(LinkCreated(url_events[j])) :
                       \A r \in Positions(RedirectOccurred(slug)) : c < r

\* A slug was redirected twice, and another link was created after its first
\* redirect.
C10_Witness ==
    \E slug \in DOMAIN redirect_events_by_slug :
        /\ Len(redirect_events_by_slug[slug]) = 2
        /\ \E i \in DOMAIN event_log :
               /\ event_log[i].kind = "LinkCreated"
               /\ event_log[i].slug # slug
               /\ \E r \in Positions(RedirectOccurred(slug)) : r < i

----------------------------------------------------------------------------
(* C11 *)

\* The last call was get_stats
CalledGetStats == call.op = "get_stats"

\* The number of RedirectOccurred events appended for slug, one for each
\* handle_redirect(slug) that returned Ok
SuccessfulRedirects(slug) == Cardinality(Positions(RedirectOccurred(slug)))

\* The step is handle_redirect(slug) returning Ok
RedirectSucceeds(slug) == handle_redirect(slug) /\ ret'.tag = "Ok"

\* What get_stats(slug) returns when called in the current state
StatsNow(slug) ==
    IF Created(slug)
    THEN Ok(Stats(url_events[CHOOSE i \in DOMAIN url_events :
                                 url_events[i].slug = slug],
                  CountRedirects(slug)))
    ELSE Err("SlugNotFound")

\* C11: for every created slug S, get_stats(S).redirects equals the number N
\* of successful handle_redirect(S) calls made since S was created (0 right
\* after the create); the count recorded for S grows by one with each
\* successful handle_redirect(S), and creates, failed redirects, redirects of
\* other slugs and get_stats calls do not change it.
C11_StatsCountSuccessfulRedirects ==
    [][/\ \A slug \in AllSlugs :
              (Created(slug) /\ get_stats(slug))
                  => (/\ ret' = StatsNow(slug)
                      /\ ret'.tag = "Ok"
                      /\ ret'.val.redirects = SuccessfulRedirects(slug))
       /\ \A slug \in AllSlugs :
              (~Created(slug) /\ Created(slug)')
                  => StatsNow(slug)'.val.redirects = 0
       /\ \A slug \in AllSlugs :
              Created(slug)
                  => StatsNow(slug)'.val.redirects =
                         StatsNow(slug).val.redirects +
                             (IF RedirectSucceeds(slug) THEN 1 ELSE 0)]_vars

\* get_stats reported two redirects for a slug after a later create of
\* another link.
C11_Witness ==
    /\ CalledGetStats
    /\ ret.tag = "Ok"
    /\ ret.val.redirects = 2
    /\ ret.val.link.slug = call.slug
    /\ Len(url_events) >= 2
    /\ event_log[Len(event_log)].kind = "LinkCreated"

----------------------------------------------------------------------------
(* C12 *)

\* C12: get_stats(slug) returns Err(SlugNotFound) exactly when no LinkCreated
\* event exists for slug; otherwise it returns Ok with Stats.link equal to the
\* ShortLink the create that registered the slug returned.
C12_StatsFoundIffCreated ==
    [][\A slug \in AllSlugs :
          get_stats(slug)
              => IF Created(slug)
                 THEN /\ ret'.tag = "Ok"
                      /\ \E i \in DOMAIN returned : returned[i].slug = slug
                      /\ \A i \in DOMAIN returned :
                             returned[i].slug = slug
                                 => ret'.val.link = returned[i]
                 ELSE ret' = Err("SlugNotFound")]_vars

\* get_stats found the second link registered, one with a generated slug.
C12_Witness ==
    /\ CalledGetStats
    /\ ret.tag = "Ok"
    /\ Len(url_events) >= 2
    /\ ret.val.link = url_events[2]
    /\ ret.val.link.slug = generate_slug_from_url(ret.val.link.url)

----------------------------------------------------------------------------
(* C13 *)

\* C13: get_stats has no side effects: whether it returns Ok or
\* Err(SlugNotFound), url_events and redirect_events_by_slug are as they were
\* (and no event is appended), so no later command or query sees a
\* difference.
C13_GetStatsChangesNothing ==
    [][\A slug \in AllSlugs :
          get_stats(slug)
              => (/\ NothingRecorded
                  /\ returned' = returned
                  /\ pc' = pc)]_vars

\* get_stats returned Ok for a slug with a redirect recorded, and the
\* redirect is still the last event.
C13_Witness ==
    /\ CalledGetStats
    /\ ret.tag = "Ok"
    /\ ret.val.redirects >= 1
    /\ call.slug \in DOMAIN redirect_events_by_slug
    /\ event_log[Len(event_log)] = RedirectOccurred(call.slug)

----------------------------------------------------------------------------
(* C14 *)

\* The step is a call of handle_redirect, successful or not
RedirectCalled == \E slug \in AllSlugs : handle_redirect(slug)

\* get_stats returns a function of the state, StatsNow, and changes nothing
\* (C13).  So two get_stats(slug) calls return identical results whatever
\* steps of a kind lie between them if and only if no step of that kind
\* changes StatsNow(slug).

\* C14, as claimed: two get_stats calls with the same slug, with no
\* handle_redirect call between them (other operations may occur in between),
\* return identical results.
C14_StatsSameWithoutRedirect ==
    [][/\ \A slug \in AllSlugs : get_stats(slug) => ret' = StatsNow(slug)
       /\ ~RedirectCalled
              => \A slug \in AllSlugs : StatsNow(slug)' = StatsNow(slug)]_vars

\* C14, amended: two get_stats calls with the same slug, with no
\* handle_redirect call and no handle_create_short_link call that registers
\* that slug between them, return identical results.
C14_StatsSameWithoutRedirectOrCreate ==
    [][/\ \A slug \in AllSlugs : get_stats(slug) => ret' = StatsNow(slug)
       /\ ~RedirectCalled
              => \A slug \in AllSlugs :
                     ~(~Created(slug) /\ Created(slug)')
                         => StatsNow(slug)' = StatsNow(slug)]_vars

\* get_stats returned the stats of a redirected slug after the create of
\* another link, with no redirect since that create.
C14_Witness ==
    /\ CalledGetStats
    /\ ret = StatsNow(call.slug)
    /\ ret.tag = "Ok"
    /\ ret.val.redirects >= 1
    /\ event_log[Len(event_log)].kind = "LinkCreated"
    /\ event_log[Len(event_log)].slug # call.slug

----------------------------------------------------------------------------
(* C15 *)

\* The step belongs to a call of handle_create_short_link
CreateStep ==
    \/ \E url \in Urls, slug \in SlugArgs : handle_create_short_link(url, slug)
    \/ slug_loop

\* C15: every handle_create_short_link call changes the state by at most one
\* appended LinkCreated event: when it returns Ok(link), url_events is the old
\* url_events with exactly link appended at the end; when it returns an Err
\* (or has not returned), url_events is unchanged; in every case
\* redirect_events_by_slug is unchanged.
C15_CreateAppendsAtMostOne ==
    [][CreateStep
          => (/\ redirect_events_by_slug' = redirect_events_by_slug
              /\ IF ret'.tag = "Ok"
                 THEN url_events' = Append(url_events, ret'.val)
                 ELSE url_events' = url_events)]_vars

\* A create returned Ok with a generated slug as the third link, with a
\* redirect recorded before it.
C15_Witness ==
    /\ CalledCreate
    /\ ~call.slug.some
    /\ ret.tag = "Ok"
    /\ Len(url_events) = 3
    /\ url_events[3] = ret.val
    /\ DOMAIN redirect_events_by_slug # {}

----------------------------------------------------------------------------
(* C16 *)

\* The url of the link that the create of slug returned
BoundUrl(slug) ==
    returned[CHOOSE i \in DOMAIN returned :
                 /\ returned[i].slug = slug
                 /\ \A j \in 1..(i - 1) : returned[j].slug # slug].url

\* C16: every slug starts Unknown: handle_redirect and get_stats return
\* Err(SlugNotFound) for it.  Once a LinkCreated event for it exists it stays
\* Created: in every later state handle_redirect and get_stats for it return
\* Ok with the url bound at its creation; no step returns a slug to Unknown or
\* rebinds it.
C16_SlugStateMachine ==
    /\ \A slug \in AllSlugs : ~Created(slug)
    /\ [][\A slug \in AllSlugs :
             IF Created(slug)
             THEN /\ Created(slug)'
                  /\ StatsNow(slug)'.val.link = ShortLink(slug, BoundUrl(slug))
                  /\ handle_redirect(slug)
                         => ret' = Ok(ShortLink(slug, BoundUrl(slug)))
                  /\ get_stats(slug)
                         => (/\ ret'.tag = "Ok"
                             /\ ret'.val.link = ShortLink(slug, BoundUrl(slug)))
             ELSE /\ handle_redirect(slug) => ret' = Err("SlugNotFound")
                  /\ get_stats(slug) => ret' = Err("SlugNotFound")]_vars

\* The first slug created was redirected after two more links had been
\* created and another slug redirected.
C16_Witness ==
    /\ CalledRedirect
    /\ Len(url_events) = 3
    /\ call.slug = url_events[1].slug
    /\ ret = Ok(returned[1])
    /\ \E other \in DOMAIN redirect_events_by_slug : other # call.slug

----------------------------------------------------------------------------
(* C17 *)

IsPrefix(s, t) == Len(s) <= Len(t) /\ SubSeq(t, 1, Len(s)) = s

\* C17: the service starts with no events, and in every step the url_events
\* before it is a prefix of the url_events after it and each slug's list of
\* redirect events before it is a prefix of that slug's list after it: no
\* recorded event is changed, moved or removed.
C17_AppendOnly ==
    /\ url_events = <<>> /\ DOMAIN redirect_events_by_slug = {}
    /\ [][/\ IsPrefix(url_events, url_events')
          /\ \A key \in DOMAIN redirect_events_by_slug :
                 /\ key \in DOMAIN redirect_events_by_slug'
                 /\ IsPrefix(redirect_events_by_slug[key],
                             redirect_events_by_slug'[key])]_vars

\* Three links and two redirects of one slug are recorded.
C17_Witness ==
    /\ Len(url_events) = 3
    /\ \E key \in DOMAIN redirect_events_by_slug :
           Len(redirect_events_by_slug[key]) = 2

----------------------------------------------------------------------------
(* C18 *)

\* The number of events like event among the first n appended
CountUpTo(event, n) == Cardinality({k \in Positions(event) : k <= n})

\* Where the i-th event appended is stored: the LinkCreated events in
\* url_events, the RedirectOccurred events of a slug in that slug's list.
Loc(i) ==
    LET event == event_log[i]
    IN  IF event.kind = "LinkCreated"
        THEN [store |-> "url_events", slug |-> event.slug,
              idx |-> Cardinality({k \in 1..i :
                                      event_log[k].kind = "LinkCreated"})]
        ELSE [store |-> "redirect_events_by_slug", slug |-> event.slug,
              idx |-> CountUpTo(event, i)]

\* The i-th event appended is what the store holds at its place.
StoredAt(i) ==
    LET loc == Loc(i)
    IN  IF loc.store = "url_events"
        THEN /\ loc.idx <= Len(url_events)
             /\ LinkCreated(url_events[loc.idx]) = event_log[i]
        ELSE /\ loc.slug \in DOMAIN redirect_events_by_slug
             /\ loc.idx <= Len(redirect_events_by_slug[loc.slug])
             /\ redirect_events_by_slug[loc.slug][loc.idx] = loc.slug

\* The stores hold nothing but the events appended.
NothingElseStored ==
    /\ Len(url_events) =
           Cardinality({k \in DOMAIN event_log :
                           event_log[k].kind = "LinkCreated"})
    /\ \A key \in DOMAIN redirect_events_by_slug :
           Len(redirect_events_by_slug[key]) =
               Cardinality(Positions(RedirectOccurred(key)))

\* The place of slug's LinkCreated event in url_events, 0 when it has none
CreatedAt(slug) ==
    IF Created(slug)
    THEN CHOOSE i \in DOMAIN url_events : url_events[i].slug = slug
    ELSE 0

\* The stored state tells that the event at a was appended before the one at
\* b: both are in one Vec and a comes first, or a is a LinkCreated event that
\* is not after the LinkCreated event of b's slug in url_events (a redirect
\* follows the create of its slug).  The two stores hold nothing else that
\* relates an event of one to an event of the other.
StoreOrders(a, b) ==
    \/ /\ a.store = b.store
       /\ a.store = "url_events" \/ a.slug = b.slug
       /\ a.idx < b.idx
    \/ /\ a.store = "url_events"
       /\ b.store = "redirect_events_by_slug"
       /\ a.idx <= CreatedAt(b.slug)

\* C18, as claimed: for any two events appended by successful commands
\* (LinkCreated or RedirectOccurred, for the same or different slugs), the
\* stored state determines which of the two was appended first.
C18_StoreOrdersAllEvents ==
    \A i, j \in DOMAIN event_log :
        i < j => StoreOrders(Loc(i), Loc(j))

\* The two events are two LinkCreated events, two RedirectOccurred events of
\* one slug, or a LinkCreated event and a RedirectOccurred event of the same
\* slug or of a slug created later.
OrderKept(a, b) ==
    \/ a.store = b.store /\ (a.store = "url_events" \/ a.slug = b.slug)
    \/ /\ a.store = "url_events"
       /\ b.store = "redirect_events_by_slug"
       /\ a.idx <= CreatedAt(b.slug)
    \/ /\ b.store = "url_events"
       /\ a.store = "redirect_events_by_slug"
       /\ b.idx <= CreatedAt(a.slug)

\* C18, amended: every event appended is stored, and for two LinkCreated
\* events, two RedirectOccurred events of the same slug, or a LinkCreated
\* event and a RedirectOccurred event of the same slug or of a slug created
\* later, the stored state determines which of the two was appended first.
C18_StoreOrdersEventsOfOneStoreOrSlug ==
    /\ NothingElseStored
    /\ \A i \in DOMAIN event_log : StoredAt(i)
    /\ \A i, j \in DOMAIN event_log :
           (i < j /\ OrderKept(Loc(i), Loc(j)))
               => (StoreOrders(Loc(i), Loc(j)) /\ ~StoreOrders(Loc(j), Loc(i)))

\* Creates and redirects were interleaved: a link, its redirect, another
\* link, and the first slug's second redirect.
C18_Witness ==
    /\ Len(event_log) >= 4
    /\ event_log[1].kind = "LinkCreated"
    /\ event_log[2] = RedirectOccurred(event_log[1].slug)
    /\ event_log[3].kind = "LinkCreated"
    /\ event_log[4] = event_log[2]

----------------------------------------------------------------------------
(* C19 *)

\* The fold of one event into a projection, a function from the valid slugs
\* to their url and redirect count: LinkCreated sets slug to url with count
\* 0, RedirectOccurred increments the slug's count.
ApplyEvent(proj, event) ==
    IF event.kind = "LinkCreated"
    THEN [slug \in DOMAIN proj \cup {event.slug} |->
             IF slug = event.slug
             THEN [url |-> event.url, redirects |-> 0]
             ELSE proj[slug]]
    ELSE IF event.slug \in DOMAIN proj
    THEN [proj EXCEPT ![event.slug].redirects = @ + 1]
    ELSE proj

RECURSIVE Fold(_, _)
Fold(proj, events) ==
    IF events = <<>> THEN proj
    ELSE Fold(ApplyEvent(proj, Head(events)), Tail(events))

EmptyProjection == [slug \in {} |-> [url |-> "", redirects |-> 0]]

\* The RedirectOccurred events recorded under the keys, one key after another
RECURSIVE RedirectEvents(_)
RedirectEvents(keys) ==
    IF keys = {} THEN <<>>
    ELSE LET key == CHOOSE k \in keys : TRUE
             stat == redirect_events_by_slug[key]
         IN  [i \in DOMAIN stat |-> RedirectOccurred(stat[i])]
                 \o RedirectEvents(keys \ {key})

\* The recorded events: the LinkCreated events of url_events, then the
\* RedirectOccurred events of redirect_events_by_slug.
RecordedEvents ==
    [i \in DOMAIN url_events |-> LinkCreated(url_events[i])]
        \o RedirectEvents(DOMAIN redirect_events_by_slug)

\* What the live service reports: the slugs get_stats knows, with the url and
\* the count it returns for each.
LiveProjection ==
    [slug \in {s \in AllSlugs : StatsNow(s).tag = "Ok"} |->
        [url |-> StatsNow(slug).val.link.url,
         redirects |-> StatsNow(slug).val.redirects]]

\* What a call of slug returns according to a projection
StatsFrom(proj, slug) ==
    IF slug \in DOMAIN proj
    THEN Ok(Stats(ShortLink(slug, proj[slug].url), proj[slug].redirects))
    ELSE Err("SlugNotFound")

RedirectFrom(proj, slug) ==
    IF slug \in DOMAIN proj
    THEN Ok(ShortLink(slug, proj[slug].url))
    ELSE Err("SlugNotFound")

\* C19: in every reachable state, folding the recorded events from the empty
\* state (in the order they are stored, and in the order they were appended)
\* yields exactly the valid slugs, their urls and their redirect counts that
\* the live service reports: what get_stats would return for every slug, and
\* what the last get_stats or handle_redirect call did return.
C19_ReplayEqualsLive ==
    LET replayed == Fold(EmptyProjection, RecordedEvents)
    IN  /\ replayed = LiveProjection
        /\ Fold(EmptyProjection, event_log) = replayed
        /\ CalledGetStats => ret = StatsFrom(replayed, call.slug)
        /\ CalledRedirect => ret = RedirectFrom(replayed, call.slug)

\* Three links, one of them redirected twice; the last call was a get_stats
\* that reported the two redirects.
C19_Witness ==
    /\ Len(url_events) = 3
    /\ CalledGetStats
    /\ ret.tag = "Ok"
    /\ ret.val.redirects = 2
    /\ Fold(EmptyProjection, RecordedEvents)[call.slug].redirects = 2

----------------------------------------------------------------------------
(* C20 *)

\* C20: in every reachable state no two LinkCreated events carry the same
\* url: each registered url is bound to exactly one slug, whether the slug
\* was supplied by the caller or generated.
C20_NoTwoLinkCreatedShareUrl ==
    \A i, j \in DOMAIN url_events :
        url_events[i].url = url_events[j].url => i = j

\* Every well-formed URL is registered, one under the slug generated for it
\* and one under a slug its caller chose, and a further create of one of them
\* has been rejected.
C20_Witness ==
    /\ {url_events[i].url : i \in DOMAIN url_events} = WellFormedUrls
    /\ \E i \in DOMAIN url_events :
           url_events[i].slug = generate_slug_from_url(url_events[i].url)
    /\ \E i \in DOMAIN url_events : url_events[i].slug = random_slug
    /\ CalledCreate
    /\ Registered(call.url)
    /\ ret = Err("SlugAlreadyInUse")

============================================================================
